---- MODULE Spec2Model ----
(***************************************************************************)
(* Model of the Fedecat Shooting prototypes: the SQLite entity store, the  *)
(* spreadsheet importers and the ranking code of                           *)
(*   src/FedecatShooting.py            (per-round variant)                 *)
(*   src/fede_shooting_kivy_prototype.py (aggregate-total variant)         *)
(*                                                                         *)
(* A table is a sequence of rows in insertion order; the position of a row *)
(* stands for its AUTOINCREMENT id (no row is ever deleted).               *)
(* Every import opens its own connection, works row by row inside one      *)
(* implicit transaction and commits once after the loop; an exception or   *)
(* an early return leaves the connection uncommitted, so the work of that  *)
(* call is discarded when the connection is finalised.                     *)
(***************************************************************************)
EXTENDS Integers, Sequences, FiniteSets, TLC

(* ------------------------------ bounds -------------------------------- *)
\* MaxRows: data rows in one imported sheet.
\* MaxRecords: shooters, entries and results the store may hold in all.
\* MaxEntries, MaxRounds: entries and round results of the ranking scenario.
MaxRows == 2
MaxRecords == 3
MaxEntries == 4
MaxRounds == 3

(* ------------------- spreadsheet cells / Python values ---------------- *)
\* A cell read by openpyxl (values_only) is None, an int or a str.  Text is
\* a sequence of one-character strings so that strip() and int() can be
\* computed character by character.
NoneV == [t |-> "none", n |-> 0, s |-> <<>>]
IntV(i) == [t |-> "int", n |-> i, s |-> <<>>]
StrV(q) == [t |-> "str", n |-> 0, s |-> q]

IsNone(v) == v.t = "none"

\* Python truthiness: None, 0 and "" are falsy.
Truthy(v) ==
    CASE v.t = "none" -> FALSE
      [] v.t = "int" -> v.n # 0
      [] OTHER -> v.s # <<>>

\* Python `a or b`.
Or(a, b) == IF Truthy(a) THEN a ELSE b

IsSpace(c) == c = " "

RECURSIVE LStrip(_)
LStrip(q) == IF q # <<>> /\ IsSpace(Head(q)) THEN LStrip(Tail(q)) ELSE q

RECURSIVE RStrip(_)
RStrip(q) ==
    IF q # <<>> /\ IsSpace(q[Len(q)]) THEN RStrip(SubSeq(q, 1, Len(q) - 1)) ELSE q

\* str.strip() on the characters of a str.
Strip(q) == RStrip(LStrip(q))

Digits == <<"0", "1", "2", "3", "4", "5", "6", "7", "8", "9">>

DigitChar(d) == Digits[d + 1]

IsDigit(c) == \E d \in 0..9 : DigitChar(d) = c

DigitVal(c) == CHOOSE d \in 0..9 : DigitChar(d) = c

RECURSIVE NatToStr(_)
NatToStr(i) == IF i < 10 THEN <<DigitChar(i)>> ELSE NatToStr(i \div 10) \o <<DigitChar(i % 10)>>

\* str(v) for a cell value.
Str(v) ==
    CASE v.t = "none" -> <<"N", "o", "n", "e">>
      [] v.t = "int" -> NatToStr(v.n)
      [] OTHER -> v.s

RECURSIVE DigitsToNat(_, _)
DigitsToNat(q, acc) ==
    IF q = <<>> THEN acc ELSE DigitsToNat(Tail(q), acc * 10 + DigitVal(Head(q)))

\* int(v) succeeds on an int and on text that is a decimal number once the
\* surrounding whitespace is removed; anything else raises.
CanInt(v) ==
    CASE v.t = "int" -> TRUE
      [] v.t = "str" -> Strip(v.s) # <<>> /\ \A i \in 1..Len(Strip(v.s)) : IsDigit(Strip(v.s)[i])
      [] OTHER -> FALSE

ToInt(v) == IF v.t = "int" THEN v.n ELSE DigitsToNat(Strip(v.s), 0)

\* All sequences over S of length at most n.
SeqsUpTo(S, n) == UNION {[1..k -> S] : k \in 0..n}

(* ------------------------------ the store ----------------------------- *)
\* mode: which of the two programs is running ("per-round" is
\* FedecatShooting.py, "aggregate-total" is the Kivy prototype).
\* shooters, competitions, squads, entries, round_results: the committed
\* tables of the per-round database; shooters and results: those of the
\* aggregate-total database (it never writes its entries table).
\* last: the call whose outcome the shell is showing (its arguments and what
\* it returned or raised), or Idle when the shell waits for a command.
\* pre: the committed tables as they were when that call started.
VARIABLES mode, shooters, competitions, squads, entries, round_results, results, last, pre

vars == <<mode, shooters, competitions, squads, entries, round_results, results, last, pre>>

Store ==
    [shooters |-> shooters, competitions |-> competitions, squads |-> squads,
     entries |-> entries, round_results |-> round_results, results |-> results]

EmptyStore ==
    [shooters |-> <<>>, competitions |-> <<>>, squads |-> <<>>,
     entries |-> <<>>, round_results |-> <<>>, results |-> <<>>]

\* A connection with its pending (uncommitted) work and the locals of the
\* running import: the counters and the exception raised, if any.
Begin(d) == [db |-> d, created |-> 0, updated |-> 0, err |-> "none"]

Raise(tx, e) == [tx EXCEPT !.err = e]

\* Positions of the rows of a table that satisfy a condition.
Matches(table, P(_)) == {i \in 1..Len(table) : P(table[i])}

\* cursor.fetchone(): 0 stands for "no row".
First(S) == IF S = {} THEN 0 ELSE CHOOSE i \in S : \A j \in S : i <= j

\* for row in rows[1:]: ...   (an exception ends the loop)
RECURSIVE FoldRows(_, _, _)
FoldRows(Step(_, _), tx, rows) ==
    IF rows = <<>> \/ tx.err # "none" THEN tx
    ELSE FoldRows(Step, Step(tx, Head(rows)), Tail(rows))

(* ------------------- import_shooters_from_excel (per-round) ----------- *)
\* dni = (data.get("dni") or "").strip() if data.get("dni") else None
\* if dni == "None": dni = None
DniOf(cell) ==
    LET stripped == StrV(Strip(Or(cell, StrV(<<>>)).s))
        dni == IF Truthy(cell) THEN stripped ELSE NoneV
    IN IF dni = StrV(<<"N", "o", "n", "e">>) THEN NoneV ELSE dni

\* shooters.dni is UNIQUE (NULLs never collide) and shooters.nombre is NOT NULL.
ShooterInsertViolates(table, s) ==
    \/ IsNone(s.nombre)
    \/ ~IsNone(s.key) /\ \E i \in 1..Len(table) : table[i].key = s.key

\* Mutant of InsertOrIgnoreShooter: the dni column without its UNIQUE constraint.
InsertShooterWithoutUnique(table, s) ==
    IF IsNone(s.nombre) THEN table ELSE Append(table, s)

\* INSERT OR IGNORE: a row that violates a constraint is dropped silently.
InsertOrIgnoreShooter(table, s) ==
    IF ShooterInsertViolates(table, s) THEN table ELSE Append(table, s)

ShooterOf(row, key) ==
    [key |-> key, nombre |-> row.nombre, categoria |-> row.categoria, numero |-> row.numero]

\* Mutant of ImportShooterRow: the SELECT by dni is skipped, every row is
\* handed to INSERT OR IGNORE.
ImportShooterRowAlwaysInsert(tx, row) ==
    IF Truthy(row.key) /\ row.key.t # "str" THEN Raise(tx, "AttributeError")
    ELSE [tx EXCEPT !.db.shooters = InsertOrIgnoreShooter(@, ShooterOf(row, DniOf(row.key))),
                    !.created = @ + 1]

ImportShooterRow(tx, row) ==
    IF Truthy(row.key) /\ row.key.t # "str" THEN Raise(tx, "AttributeError")
    ELSE
      LET dni == DniOf(row.key)
          r == IF Truthy(dni)
               THEN First(Matches(tx.db.shooters, LAMBDA s : s.key = dni))
               ELSE 0
      IN IF r # 0
         THEN IF IsNone(row.nombre) THEN Raise(tx, "IntegrityError")
              ELSE [tx EXCEPT !.db.shooters[r] = ShooterOf(row, @.key)]
         ELSE [tx EXCEPT !.db.shooters = InsertOrIgnoreShooter(@, ShooterOf(row, dni)),
                         !.created = @ + 1]

\* file: "ok" (a workbook with the sheet), "nosheet" (the sheet is missing)
\* or "noxlsx" (openpyxl missing or not an .xlsx path).
import_shooters_from_excel(d, file, rows) ==
    IF file = "noxlsx" THEN Raise(Begin(d), "RuntimeError")
    ELSE IF file = "nosheet" THEN Begin(d)
    ELSE FoldRows(ImportShooterRow, Begin(d), rows)

(* --------------- import_shooters_from_excel (aggregate-total) --------- *)
\* licencia = str(cell) if cell is not None else None; when that is empty the
\* key is f"X-{nombre}-{numero}" if numero else f"X-{nombre}".
LicenciaOf(row) ==
    LET licencia == IF IsNone(row.key) THEN NoneV ELSE StrV(Str(row.key))
    IN IF Truthy(licencia) THEN licencia
       ELSE IF Truthy(row.numero)
            THEN StrV(<<"X", "-">> \o Str(row.nombre) \o <<"-">> \o Str(row.numero))
            ELSE StrV(<<"X", "-">> \o Str(row.nombre))

KivyImportShooterRow(tx, row) ==
    LET licencia == LicenciaOf(row)
        r == First(Matches(tx.db.shooters, LAMBDA s : s.key = licencia))
    IN IF IsNone(row.nombre) THEN Raise(tx, "IntegrityError")
       ELSE IF r # 0
            THEN [tx EXCEPT !.db.shooters[r] = ShooterOf(row, @.key), !.updated = @ + 1]
            ELSE [tx EXCEPT !.db.shooters = Append(@, ShooterOf(row, licencia)),
                            !.created = @ + 1]

kivy_import_shooters_from_excel(d, file, rows) ==
    IF file # "ok" THEN Raise(Begin(d), "RuntimeError")
    ELSE FoldRows(KivyImportShooterRow, Begin(d), rows)

(* ------------------- import_inscriptions_from_excel ------------------- *)
CompIdOf(d, name) == First(Matches(d.competitions, LAMBDA c : c = name))

\* "asegurar competición": SELECT by name, INSERT when absent.
EnsureCompetition(tx, name) ==
    IF CompIdOf(tx.db, name) # 0 THEN tx
    ELSE [tx EXCEPT !.db.competitions = Append(@, name)]

\* shooter_dni = (data.get("shooter_dni") or "").strip() if data.get("shooter_dni") else None
ShooterDniOf(cell) ==
    IF Truthy(cell) THEN StrV(Strip(Or(cell, StrV(<<>>)).s)) ELSE NoneV

SinEscuadra == StrV(<<"S", "i", "n", " ", "e", "s", "c", "u", "a", "d", "r", "a">>)

\* str(dorsal) if dorsal is not None else None
DorsalOf(cell) == IF IsNone(cell) THEN NoneV ELSE StrV(Str(cell))

SquadIdOf(d, comp_id, squad_name) ==
    First(Matches(d.squads, LAMBDA q : q.competition_id = comp_id /\ q.nombre = squad_name))

\* "buscar o crear escuadra"
EnsureSquad(tx, comp_id, squad_name) ==
    IF SquadIdOf(tx.db, comp_id, squad_name) # 0 THEN tx
    ELSE [tx EXCEPT !.db.squads =
              Append(@, [competition_id |-> comp_id, nombre |-> squad_name])]

\* The entries table has no UNIQUE constraint: ix_entries_comp_dorsal is a
\* plain index, so the INSERT always succeeds.
InsertEntry(table, e) == Append(table, e)

\* Mutant of ImportInscriptionRow: an unknown shooter ends the import with an
\* error instead of being skipped.
ImportInscriptionRowStrict(comp_id, tx, row) ==
    LET shooter_dni == ShooterDniOf(row.key)
        shooter == First(Matches(tx.db.shooters, LAMBDA s : s.key = shooter_dni))
        squad_name == Or(row.squad, SinEscuadra)
        tx2 == EnsureSquad(tx, comp_id, squad_name)
        e == [competition_id |-> comp_id, shooter_id |-> shooter,
              squad_id |-> SquadIdOf(tx2.db, comp_id, squad_name),
              dorsal |-> DorsalOf(row.dorsal)]
    IN IF ~Truthy(shooter_dni) \/ shooter = 0 THEN Raise(tx, "NotFound")
       ELSE [tx2 EXCEPT !.db.entries = InsertEntry(@, e), !.created = @ + 1]

ImportInscriptionRow(comp_id, tx, row) ==
      IF Truthy(row.key) /\ row.key.t # "str" THEN Raise(tx, "AttributeError")
      ELSE
        LET shooter_dni == ShooterDniOf(row.key)
            shooter == First(Matches(tx.db.shooters, LAMBDA s : s.key = shooter_dni))
            squad_name == Or(row.squad, SinEscuadra)
            tx2 == EnsureSquad(tx, comp_id, squad_name)
            e == [competition_id |-> comp_id, shooter_id |-> shooter,
                  squad_id |-> SquadIdOf(tx2.db, comp_id, squad_name),
                  dorsal |-> DorsalOf(row.dorsal)]
        IN IF ~Truthy(shooter_dni) \/ shooter = 0 THEN tx
           ELSE [tx2 EXCEPT !.db.entries = InsertEntry(@, e), !.created = @ + 1]

import_inscriptions_from_excel(d, file, competition_name, rows) ==
    LET tx == EnsureCompetition(Begin(d), competition_name)
        comp_id == CompIdOf(tx.db, competition_name)
    IN IF file = "noxlsx" THEN Raise(tx, "RuntimeError")
       ELSE IF file = "nosheet" THEN tx
       ELSE FoldRows(LAMBDA t, r : ImportInscriptionRow(comp_id, t, r), tx, rows)

(* --------------------- import_results_from_excel (per-round) ---------- *)
\* Mutant of EntryIdOf: the lookup forgets the competition.
EntryIdOfAnyCompetition(d, comp_id, dorsal) ==
    IF IsNone(dorsal) THEN 0
    ELSE First(Matches(d.entries, LAMBDA e : e.dorsal = dorsal))

\* SELECT id FROM entries WHERE competition_id=? AND dorsal=?  (a NULL dorsal
\* compares equal to nothing)
EntryIdOf(d, comp_id, dorsal) ==
    IF IsNone(dorsal) THEN 0
    ELSE First(Matches(d.entries,
                       LAMBDA e : e.competition_id = comp_id /\ e.dorsal = dorsal))

\* Mutant of ImportResultRow: a result of the same entry and round number is
\* overwritten instead of a new one being added.
ImportResultRowUpsert(comp_id, tx, row) ==
      LET dorsal == DorsalOf(row.dorsal)
          entry == EntryIdOf(tx.db, comp_id, dorsal)
          round_cell == Or(row.round, IntV(1))
          hits_cell == Or(row.hits, IntV(0))
          misses_cell == Or(row.misses, IntV(0))
      IN IF entry = 0 THEN tx
         ELSE IF ~CanInt(round_cell) \/ ~CanInt(hits_cell) \/ ~CanInt(misses_cell)
              THEN Raise(tx, "ValueError")
         ELSE LET hits == ToInt(hits_cell)
                  score_cell == Or(row.score, IntV(hits))
                  old == First(Matches(tx.db.round_results,
                                       LAMBDA r : /\ r.entry_id = entry
                                                  /\ r.round_number = ToInt(round_cell)))
              IN IF ~CanInt(score_cell) THEN Raise(tx, "ValueError")
                 ELSE LET rec == [entry_id |-> entry,
                                  round_number |-> ToInt(round_cell),
                                  hits |-> hits,
                                  misses |-> ToInt(misses_cell),
                                  score |-> ToInt(score_cell)]
                      IN IF old # 0
                         THEN [tx EXCEPT !.db.round_results[old] = rec,
                                         !.created = @ + 1]
                         ELSE [tx EXCEPT !.db.round_results = Append(@, rec),
                                         !.created = @ + 1]

ImportResultRow(comp_id, tx, row) ==
      LET dorsal == DorsalOf(row.dorsal)
          entry == EntryIdOf(tx.db, comp_id, dorsal)
          round_cell == Or(row.round, IntV(1))
          hits_cell == Or(row.hits, IntV(0))
          misses_cell == Or(row.misses, IntV(0))
      IN IF entry = 0 THEN tx
         ELSE IF ~CanInt(round_cell) \/ ~CanInt(hits_cell) \/ ~CanInt(misses_cell)
              THEN Raise(tx, "ValueError")
         ELSE LET hits == ToInt(hits_cell)
                  score_cell == Or(row.score, IntV(hits))
              IN IF ~CanInt(score_cell) THEN Raise(tx, "ValueError")
                 ELSE [tx EXCEPT
                         !.db.round_results =
                             Append(@, [entry_id |-> entry,
                                        round_number |-> ToInt(round_cell),
                                        hits |-> hits,
                                        misses |-> ToInt(misses_cell),
                                        score |-> ToInt(score_cell)]),
                         !.created = @ + 1]

\* Mutant of import_results_from_excel: the competition is created when it
\* is absent, as the inscriptions import does.
import_results_creating_competition(d, file, competition_name, rows) ==
    LET tx == EnsureCompetition(Begin(d), competition_name)
        comp_id == CompIdOf(tx.db, competition_name)
    IN IF file = "noxlsx" THEN Raise(tx, "RuntimeError")
       ELSE IF file = "nosheet" THEN tx
       ELSE FoldRows(LAMBDA t, r : ImportResultRow(comp_id, t, r), tx, rows)

import_results_from_excel(d, file, competition_name, rows) ==
    LET comp_id == CompIdOf(d, competition_name)
    IN IF comp_id = 0 THEN Raise(Begin(d), "NotFound")
       ELSE IF file = "noxlsx" THEN Raise(Begin(d), "RuntimeError")
       ELSE IF file = "nosheet" THEN Begin(d)
       ELSE FoldRows(LAMBDA t, r : ImportResultRow(comp_id, t, r), Begin(d), rows)

(* ------------------ import_results_from_excel (aggregate-total) ------- *)
\* A value bound to an INTEGER column: text that looks like a number is
\* stored as that number, any other value is stored as it is.
IntegerAffinity(v) == IF v.t = "str" /\ CanInt(v) THEN IntV(ToInt(v)) ELSE v

\* s = 0; for si in series_indices: s += int(row[si] or 0)
RECURSIVE SumSeries(_)
SumSeries(cells) ==
    IF cells = <<>> THEN 0 ELSE ToInt(Or(Head(cells), IntV(0))) + SumSeries(Tail(cells))

SeriesCanInt(cells) == \A i \in 1..Len(cells) : CanInt(Or(cells[i], IntV(0)))

KivyImportResultRowSeriesFirst(tx, row) ==
    LET licencia == IF IsNone(row.key) THEN NoneV ELSE StrV(Str(row.key))
        shooter == First(Matches(tx.db.shooters, LAMBDA s : s.key = licencia))
        summed == row.series # <<>>
        total == IF summed THEN IntV(SumSeries(row.series)) ELSE row.total
    IN IF ~Truthy(licencia) \/ shooter = 0 THEN tx
       ELSE IF summed /\ ~SeriesCanInt(row.series) THEN Raise(tx, "ValueError")
       ELSE [tx EXCEPT
               !.db.results = Append(@, [shooter_id |-> shooter, serie |-> 0,
                                         hits |-> IntegerAffinity(total),
                                         score |-> IntegerAffinity(total)]),
               !.created = @ + 1]

KivyImportResultRow(tx, row) ==
    LET licencia == IF IsNone(row.key) THEN NoneV ELSE StrV(Str(row.key))
        shooter == First(Matches(tx.db.shooters, LAMBDA s : s.key = licencia))
        summed == IsNone(row.total) /\ row.series # <<>>
        total == IF summed THEN IntV(SumSeries(row.series)) ELSE row.total
    IN IF ~Truthy(licencia) \/ shooter = 0 THEN tx
       ELSE IF summed /\ ~SeriesCanInt(row.series) THEN Raise(tx, "ValueError")
       ELSE [tx EXCEPT
               !.db.results = Append(@, [shooter_id |-> shooter, serie |-> 0,
                                         hits |-> IntegerAffinity(total),
                                         score |-> IntegerAffinity(total)]),
               !.created = @ + 1]

kivy_import_results_from_excel(d, file, rows) ==
    IF file # "ok" THEN Raise(Begin(d), "RuntimeError")
    ELSE FoldRows(KivyImportResultRow, Begin(d), rows)

(* --------------------------- compute_rankings ------------------------- *)
SinCategoria ==
    StrV(<<"S", "i", "n", " ", "c", "a", "t", "e", "g", "o", "r", "í", "a">>)

\* SELECT SUM(col) FROM round_results WHERE entry_id = ?, with the
\* "if ... is not None else 0" of the caller.
RECURSIVE SumHits(_, _)
SumHits(table, entry) ==
    IF table = <<>> THEN 0
    ELSE (IF Head(table).entry_id = entry THEN Head(table).hits ELSE 0)
         + SumHits(Tail(table), entry)

RECURSIVE SumScore(_, _)
SumScore(table, entry) ==
    IF table = <<>> THEN 0
    ELSE (IF Head(table).entry_id = entry THEN Head(table).score ELSE 0)
         + SumScore(Tail(table), entry)

\* Mutant of EntriesOf: the WHERE e.competition_id = ? is dropped.
EntriesOfAnyCompetition(d, comp_id) == 1..Len(d.entries)

\* The entries of a competition (the JOIN with shooters drops nothing: every
\* entry is inserted with the id of a shooter that exists).
EntriesOf(d, comp_id) == Matches(d.entries, LAMBDA e : e.competition_id = comp_id)

\* The orders in which a SELECT without ORDER BY may return the rows of S.
Retrievals(S) ==
    {f \in [1..Cardinality(S) -> S] : \A i, j \in 1..Cardinality(S) : f[i] = f[j] => i = j}

\* One dict of the standings list; entry_id is not in the dict of the code,
\* it records which entry the dict was built from.
Standing(d, e) ==
    [entry_id |-> e,
     dorsal |-> d.entries[e].dorsal,
     nombre |-> d.shooters[d.entries[e].shooter_id].nombre,
     categoria |-> Or(d.shooters[d.entries[e].shooter_id].categoria, SinCategoria),
     total_hits |-> SumHits(d.round_results, e),
     total_score |-> SumScore(d.round_results, e)]

\* Mutant of KeyLess: the sort key without the hits.
KeyLessScoreOnly(x, y) == x.total_score > y.total_score

\* key=lambda x: (-x['total_score'], -x['total_hits']) compared as tuples
KeyLess(x, y) ==
    \/ x.total_score > y.total_score
    \/ x.total_score = y.total_score /\ x.total_hits > y.total_hits

\* sorted() is stable: x goes after every element that does not sort after it.
RECURSIVE InsertSorted(_, _)
InsertSorted(sq, x) ==
    IF sq = <<>> THEN <<x>>
    ELSE IF KeyLess(x, Head(sq)) THEN <<x>> \o sq
    ELSE <<Head(sq)>> \o InsertSorted(Tail(sq), x)

RECURSIVE Sorted(_)
Sorted(sq) ==
    IF sq = <<>> THEN <<>>
    ELSE InsertSorted(Sorted(SubSeq(sq, 1, Len(sq) - 1)), sq[Len(sq)])

\* standings_sorted for the entries retrieved in the order `order`.
compute_rankings(d, comp_id, order) ==
    Sorted([i \in 1..Len(order) |-> Standing(d, order[i])])

\* grouped = {}; for s in standings_sorted:
\*     grouped.setdefault(s['categoria'], []).append(s)
\* A dict is a function from its keys (the category labels) to the lists.
RECURSIVE GroupInto(_, _)
GroupInto(acc, sq) ==
    IF sq = <<>> THEN acc
    ELSE LET c == Head(sq).categoria
         IN GroupInto(IF c \in DOMAIN acc
                      THEN [acc EXCEPT ![c] = Append(@, Head(sq))]
                      ELSE acc @@ (c :> <<Head(sq)>>),
                      Tail(sq))

\* Mutant of grouped: each label keeps only the last standing put under it.
grouped_keeping_last(standings_sorted) ==
    [c \in {standings_sorted[i].categoria : i \in 1..Len(standings_sorted)} |->
        LET last_i == CHOOSE i \in 1..Len(standings_sorted) :
                          /\ standings_sorted[i].categoria = c
                          /\ \A j \in (i + 1)..Len(standings_sorted) :
                                 standings_sorted[j].categoria # c
        IN <<standings_sorted[last_i]>>]

\* What compute_rankings(..., by_category=True) returns for standings_sorted.
grouped(standings_sorted) == GroupInto(<<>>, standings_sorted)

(* ------------------------ export_results_to_excel --------------------- *)
\* One element of `rows`: the dict built for an entry (club is not modelled;
\* categoria is exported as stored, without the "Sin categoría" label).
ExportRow(d, e) ==
    [dorsal |-> d.entries[e].dorsal,
     nombre |-> d.shooters[d.entries[e].shooter_id].nombre,
     categoria |-> d.shooters[d.entries[e].shooter_id].categoria,
     total_hits |-> IntV(SumHits(d.round_results, e)),
     total_score |-> IntV(SumScore(d.round_results, e))]

\* csv.writer writes None as the empty string and anything else as str(v).
CsvCell(v) == IF IsNone(v) THEN StrV(<<>>) ELSE StrV(Str(v))

CsvRow(x) ==
    [dorsal |-> CsvCell(x.dorsal), nombre |-> CsvCell(x.nombre),
     categoria |-> CsvCell(x.categoria), total_hits |-> CsvCell(x.total_hits),
     total_score |-> CsvCell(x.total_score)]

\* The data rows written under the header
\* ["dorsal","nombre","club","categoria","total_hits","total_score"]: to the
\* sheet "Resultados" of a workbook (file = "ok"), or to a CSV file when
\* openpyxl is missing or the path is not an .xlsx path (file = "noxlsx").
export_results_to_excel(d, comp_id, file, order) ==
    [i \in 1..Len(order) |->
        IF file = "ok" THEN ExportRow(d, order[i]) ELSE CsvRow(ExportRow(d, order[i]))]

\* What import_results_from_excel reads from a data row of that sheet:
\* data = dict(zip(headers,row)) has "dorsal" but none of "round", "hits",
\* "misses", "score", so data.get(...) is None for those.
ReadBack(x) ==
    [dorsal |-> x.dorsal, round |-> NoneV, hits |-> NoneV, misses |-> NoneV,
     score |-> NoneV]

(* -------------------- compute_rankings (aggregate-total) -------------- *)
\* COALESCE(SUM(r.score),0) over the results of a shooter: SUM skips NULL and
\* counts text that is not a number as 0.
RECURSIVE TotalScore(_, _)
TotalScore(table, shooter) ==
    IF table = <<>> THEN 0
    ELSE (IF Head(table).shooter_id = shooter /\ Head(table).score.t = "int"
          THEN Head(table).score.n ELSE 0)
         + TotalScore(Tail(table), shooter)

\* GROUP BY s.id ORDER BY total_score DESC: one row per shooter; rows with
\* the same total come in any order.
RankedOrders(d) ==
    {o \in Retrievals(1..Len(d.shooters)) :
        \A i, j \in 1..Len(d.shooters) :
            i < j => TotalScore(d.results, o[i]) >= TotalScore(d.results, o[j])}

\* The `general` list built from the rows in the order `order`; shooter_id is
\* not in the dict of the code, it records which shooter the dict is for.
kivy_compute_rankings(d, order) ==
    [i \in 1..Len(order) |->
        [shooter_id |-> order[i], puesto |-> i, nombre |-> d.shooters[order[i]].nombre,
         categoria |-> d.shooters[order[i]].categoria,
         total |-> TotalScore(d.results, order[i])]]

\* cat = g["categoria"] or "Sin categoría"; cat_map.setdefault(cat, []).append(g)
RECURSIVE CatMapInto(_, _)
CatMapInto(acc, sq) ==
    IF sq = <<>> THEN acc
    ELSE LET cat == Or(Head(sq).categoria, SinCategoria)
         IN CatMapInto(IF cat \in DOMAIN acc
                       THEN [acc EXCEPT ![cat] = Append(@, Head(sq))]
                       ELSE acc @@ (cat :> <<Head(sq)>>),
                       Tail(sq))

\* Mutant of cat_map: every group is ranked again from 1.
cat_map_reranked(general) ==
    LET m == CatMapInto(<<>>, general)
    IN [c \in DOMAIN m |-> [k \in 1..Len(m[c]) |-> [m[c][k] EXCEPT !.puesto = k]]]

cat_map(general) == CatMapInto(<<>>, general)

(* -------------------- export_classification_to_excel ------------------ *)
\* The data rows appended to the "General" sheet, one per dict of `general`
\* (comunidad is not modelled).
export_classification_to_excel(d, order) ==
    [i \in 1..Len(order) |->
        [puesto |-> IntV(kivy_compute_rankings(d, order)[i].puesto),
         nombre |-> kivy_compute_rankings(d, order)[i].nombre,
         categoria |-> kivy_compute_rankings(d, order)[i].categoria,
         total |-> IntV(kivy_compute_rankings(d, order)[i].total)]]

(* ------------------------- calls and commits -------------------------- *)
Files == {"ok", "nosheet", "noxlsx"}

\* Mutant of Committed: every row is committed as it is inserted, so what was
\* pending when an exception ended the loop stays.
CommittedRowByRow(tx, file) == file = "ok"

\* conn.commit() is reached only when the loop ends without an exception and
\* the sheet was there; otherwise the pending work is lost with the connection.
Committed(tx, file) == tx.err = "none" /\ file = "ok"

Idle ==
    [op |-> "idle", file |-> "ok", comp |-> "", rows |-> <<>>, err |-> "none",
     created |-> 0, updated |-> 0, out |-> <<>>, groups |-> <<>>]

Finish(op, file, comp, rows, tx) ==
    LET d == IF Committed(tx, file) THEN tx.db ELSE Store
    IN /\ shooters' = d.shooters
       /\ competitions' = d.competitions
       /\ squads' = d.squads
       /\ entries' = d.entries
       /\ round_results' = d.round_results
       /\ results' = d.results
       /\ pre' = Store
       /\ last' = [op |-> op, file |-> file, comp |-> comp, rows |-> rows,
                   err |-> tx.err, created |-> tx.created, updated |-> tx.updated,
                   out |-> <<>>, groups |-> <<>>]
       /\ UNCHANGED mode

(* ------------------------------ inputs -------------------------------- *)
T(str) == StrV(str)

Comps == {"Cup", "Other"}

NoComp == ""

Row(key, nombre, categoria, numero) ==
    [key |-> key, nombre |-> nombre, categoria |-> categoria, numero |-> numero]

KeyA == T(<<"A">>)
KeyPadA == T(<<" ", "A">>)
KeyAPad == T(<<"A", " ">>)
KeyLowerA == T(<<"a">>)
KeyBlank == T(<<" ">>)
KeyNoneText == T(<<"N", "o", "n", "e">>)
Nombre == T(<<"N">>)
Senior == T(<<"S">>)

\* Rows of the "Tiradores" sheet of the per-round program.
ShooterRows ==
    {Row(k, Nombre, Senior, NoneV) : k \in {KeyBlank, KeyPadA, KeyLowerA}}
        \cup {Row(KeyA, Nombre, NoneV, NoneV)}

\* The same sheet with every kind of key cell, and a row without a name.
RichShooterRows ==
    {Row(k, Nombre, c, NoneV) :
        k \in {NoneV, KeyBlank, KeyA, KeyPadA, KeyLowerA, KeyNoneText, IntV(7)},
        c \in {NoneV, Senior}}
        \cup {Row(KeyA, NoneV, Senior, NoneV)}

\* Rows of the "Tiradores" sheet of the aggregate-total program.
KivyShooterRows ==
    {Row(k, Nombre, Senior, n) : k \in {NoneV, KeyA, KeyPadA}, n \in {NoneV, IntV(1)}}

RichKivyShooterRows ==
    {Row(k, Nombre, Senior, n) :
        k \in {NoneV, KeyA, KeyPadA, KeyNoneText, IntV(7)}, n \in {NoneV, IntV(1)}}
        \cup {Row(KeyA, Nombre, NoneV, NoneV), Row(KeyA, NoneV, Senior, NoneV)}
        \cup {Row(NoneV, Nombre, Senior, IntV(0)), Row(NoneV, T(<<"M">>), Senior, IntV(1))}

InscriptionCells == {<<NoneV, IntV(1)>>, <<T(<<"Q">>), T(<<"1">>)>>, <<T(<<"Q">>), IntV(2)>>}

\* Rows of the "Inscripciones" sheet.
InscriptionRows ==
    {[key |-> k, squad |-> c[1], dorsal |-> c[2]] :
        k \in {KeyAPad, KeyLowerA}, c \in InscriptionCells} \ {[key |-> KeyLowerA, squad |-> T(<<"Q">>), dorsal |-> T(<<"1">>)]}

ResultCells(r, h, m, sc) == [round |-> r, hits |-> h, misses |-> m, score |-> sc]

ResultValues ==
    {ResultCells(NoneV, NoneV, NoneV, NoneV),
     ResultCells(IntV(2), T(<<"2">>), IntV(1), IntV(1)),
     ResultCells(IntV(1), IntV(1), NoneV, T(<<"x">>))}

\* Rows of the "Resultados" sheet of the per-round program.
ResultRows ==
    {[dorsal |-> d, round |-> v.round, hits |-> v.hits, misses |-> v.misses,
      score |-> v.score] : d \in {IntV(1), T(<<"2">>)}, v \in ResultValues}
        \ {[dorsal |-> T(<<"2">>), round |-> IntV(1), hits |-> IntV(1), misses |-> NoneV, score |-> T(<<"x">>)]}

\* Rows of the "Resultados" sheet of the aggregate-total program.
KivyResultRows ==
    {[key |-> k, series |-> sr, total |-> t] :
        k \in {KeyA, NoneV}, sr \in {<<>>, <<IntV(1), NoneV>>, <<T(<<"x">>)>>},
        t \in {NoneV, IntV(3)}}

\* The sheet read by a call: no data rows unless the workbook has the sheet.
Sheets(RowSet) ==
    {<<"ok", rows>> : rows \in SeqsUpTo(RowSet, MaxRows)}
        \cup {<<"nosheet", <<>>>>, <<"noxlsx", <<>>>>}

\* The call leaves at most MaxRecords shooters, entries and results.
Room(tx) ==
    Len(tx.db.shooters) + Len(tx.db.entries) + Len(tx.db.round_results)
        + Len(tx.db.results) <= MaxRecords

(* ------------------------------ actions ------------------------------- *)
\* Each action is one call of the program: SheetSet is the set of sheets it
\* may be given (a pair <<file, rows>>) and Fits bounds what the call may
\* leave in the store.
ImportShootersFrom(SheetSet, Fits(_)) ==
    /\ mode = "per-round"
    /\ last = Idle
    /\ \E sh \in SheetSet :
         LET tx == import_shooters_from_excel(Store, sh[1], sh[2])
         IN Fits(tx) /\ Finish("ImportShooters", sh[1], NoComp, sh[2], tx)

KivyImportShootersFrom(SheetSet, Fits(_)) ==
    /\ mode = "aggregate-total"
    /\ last = Idle
    /\ \E sh \in SheetSet :
         LET tx == kivy_import_shooters_from_excel(Store, sh[1], sh[2])
         IN Fits(tx) /\ Finish("ImportShooters", sh[1], NoComp, sh[2], tx)

ImportInscriptionsFrom(SheetSet, CompSet, Fits(_)) ==
    /\ mode = "per-round"
    /\ last = Idle
    /\ \E sh \in SheetSet, comp \in CompSet :
         LET tx == import_inscriptions_from_excel(Store, sh[1], comp, sh[2])
         IN Fits(tx) /\ Finish("ImportInscriptions", sh[1], comp, sh[2], tx)

ImportResultsFrom(SheetSet, CompSet, Fits(_)) ==
    /\ mode = "per-round"
    /\ last = Idle
    /\ \E sh \in SheetSet, comp \in CompSet :
         LET tx == import_results_from_excel(Store, sh[1], comp, sh[2])
         IN Fits(tx) /\ Finish("ImportResults", sh[1], comp, sh[2], tx)

KivyImportResultsFrom(SheetSet, Fits(_)) ==
    /\ mode = "aggregate-total"
    /\ last = Idle
    /\ \E sh \in SheetSet :
         LET tx == kivy_import_results_from_excel(Store, sh[1], sh[2])
         IN Fits(tx) /\ Finish("ImportResults", sh[1], NoComp, sh[2], tx)

\* compute_rankings(competition_name, by_category=False)
ComputeStandings ==
    /\ mode = "per-round"
    /\ last = Idle
    /\ \E comp \in Comps :
         LET comp_id == CompIdOf(Store, comp)
         IN \E order \in (IF comp_id = 0 THEN {<<>>} ELSE Retrievals(EntriesOf(Store, comp_id))) :
              /\ last' = [op |-> "ComputeStandings", file |-> "ok", comp |-> comp,
                          rows |-> order,
                          err |-> IF comp_id = 0 THEN "NotFound" ELSE "none",
                          created |-> 0, updated |-> 0,
                          out |-> IF comp_id = 0 THEN <<>>
                                  ELSE compute_rankings(Store, comp_id, order),
                          groups |-> <<>>]
              /\ pre' = Store
              /\ UNCHANGED <<mode, shooters, competitions, squads, entries,
                             round_results, results>>

\* compute_rankings() of the aggregate-total program
KivyComputeStandings ==
    /\ mode = "aggregate-total"
    /\ last = Idle
    /\ \E order \in RankedOrders(Store) :
         /\ last' = [op |-> "ComputeStandings", file |-> "ok", comp |-> NoComp,
                     rows |-> order, err |-> "none", created |-> 0, updated |-> 0,
                     out |-> kivy_compute_rankings(Store, order),
                     groups |-> cat_map(kivy_compute_rankings(Store, order))]
         /\ pre' = Store
         /\ UNCHANGED <<mode, shooters, competitions, squads, entries,
                        round_results, results>>

\* compute_rankings(competition_name, by_category=True), as show_rankings
\* calls it; out keeps the local standings_sorted the groups were built from.
ShowRankings ==
    /\ mode = "per-round"
    /\ last = Idle
    /\ \E comp \in Comps :
         LET comp_id == CompIdOf(Store, comp)
         IN \E order \in (IF comp_id = 0 THEN {<<>>} ELSE Retrievals(EntriesOf(Store, comp_id))) :
              /\ last' = [op |-> "ShowRankings", file |-> "ok", comp |-> comp,
                          rows |-> order,
                          err |-> IF comp_id = 0 THEN "NotFound" ELSE "none",
                          created |-> 0, updated |-> 0,
                          out |-> IF comp_id = 0 THEN <<>>
                                  ELSE compute_rankings(Store, comp_id, order),
                          groups |-> IF comp_id = 0 THEN <<>>
                                     ELSE grouped(compute_rankings(Store, comp_id, order))]
              /\ pre' = Store
              /\ UNCHANGED <<mode, shooters, competitions, squads, entries,
                             round_results, results>>

\* export_results_to_excel(competition_name, out_path); created is the
\* count it returns, out the data rows it wrote.
ExportStandings ==
    /\ mode = "per-round"
    /\ last = Idle
    /\ \E comp \in Comps, file \in {"ok", "noxlsx"} :
         LET comp_id == CompIdOf(Store, comp)
         IN \E order \in (IF comp_id = 0 THEN {<<>>} ELSE Retrievals(EntriesOf(Store, comp_id))) :
              /\ last' = [op |-> "ExportStandings", file |-> file, comp |-> comp,
                          rows |-> order,
                          err |-> IF comp_id = 0 THEN "NotFound" ELSE "none",
                          created |-> IF comp_id = 0 THEN 0
                                      ELSE Len(export_results_to_excel(Store, comp_id, file, order)),
                          updated |-> 0,
                          out |-> IF comp_id = 0 THEN <<>>
                                  ELSE export_results_to_excel(Store, comp_id, file, order),
                          groups |-> <<>>]
              /\ pre' = Store
              /\ UNCHANGED <<mode, shooters, competitions, squads, entries,
                             round_results, results>>

\* export_classification_to_excel(): without openpyxl it raises before it
\* reads anything; otherwise it writes the workbook and returns out_path,
\* which is no count (created is -1).
KivyExportClassification ==
    /\ mode = "aggregate-total"
    /\ last = Idle
    /\ \E file \in {"ok", "noxlsx"} :
         \E order \in (IF file = "ok" THEN RankedOrders(Store) ELSE {<<>>}) :
              /\ last' = [op |-> "ExportStandings", file |-> file, comp |-> NoComp,
                          rows |-> order,
                          err |-> IF file = "ok" THEN "none" ELSE "RuntimeError",
                          created |-> -1, updated |-> 0,
                          out |-> IF file = "ok"
                                  THEN export_classification_to_excel(Store, order)
                                  ELSE <<>>,
                          groups |-> <<>>]
              /\ pre' = Store
              /\ UNCHANGED <<mode, shooters, competitions, squads, entries,
                             round_results, results>>

\* The file just exported is handed to import_results_from_excel for the
\* same competition (a CSV file is refused like any path that is not .xlsx).
ReimportFrom(Fits(_)) ==
    /\ mode = "per-round"
    /\ last.op = "ExportStandings"
    /\ last.err = "none"
    /\ LET rows == [i \in 1..Len(last.out) |-> ReadBack(last.out[i])]
           tx == import_results_from_excel(Store, last.file, last.comp, rows)
       IN Fits(tx) /\ Finish("ReimportResults", last.file, last.comp, rows, tx)

ImportShooters == ImportShootersFrom(Sheets(ShooterRows), Room)

KivyImportShooters == KivyImportShootersFrom(Sheets(KivyShooterRows), Room)

ImportInscriptions == ImportInscriptionsFrom(Sheets(InscriptionRows), Comps, Room)

ImportResults == ImportResultsFrom(Sheets(ResultRows), Comps, Room)

KivyImportResults == KivyImportResultsFrom(Sheets(KivyResultRows), Room)

\* The shell has shown the count or the error of the call (a message box of
\* the GUI, a printed line of the CLI) and takes the next command.
Dismiss ==
    /\ last # Idle
    /\ last' = Idle
    /\ pre' = Store
    /\ UNCHANGED <<mode, shooters, competitions, squads, entries, round_results, results>>

\* The state after init_db(): every table exists and is empty.
Init ==
    /\ mode \in {"per-round", "aggregate-total"}
    /\ shooters = <<>>
    /\ competitions = <<>>
    /\ squads = <<>>
    /\ entries = <<>>
    /\ round_results = <<>>
    /\ results = <<>>
    /\ pre = EmptyStore
    /\ last = Idle

Next ==
    \/ ImportShooters
    \/ ImportInscriptions
    \/ ImportResults
    \/ ComputeStandings
    \/ KivyImportShooters
    \/ KivyImportResults
    \/ Dismiss

Spec == Init /\ [][Next]_vars

\* The shooter imports alone, fed every kind of key cell.
ImportRichShooters == ImportShootersFrom(Sheets(RichShooterRows), Room)

KivyImportRichShooters == KivyImportShootersFrom(Sheets(RichKivyShooterRows), Room)

NextShooters ==
    \/ ImportRichShooters
    \/ KivyImportRichShooters
    \/ Dismiss

SpecShooters == Init /\ [][NextShooters]_vars

(* ------------------------- the ranking scenario ------------------------ *)
\* Three shooters, entered in "Cup" with dorsals 1, 2 and 3; the first of
\* them is also entered in "Other" with dorsal 1.  Rounds are then imported
\* one row at a time, or as the one-round sheet with scores 24/20/22.
KeyB == T(<<"B">>)

ScenarioShooters ==
    <<Row(KeyA, Nombre, Senior, NoneV), Row(KeyLowerA, Nombre, NoneV, NoneV),
      Row(KeyB, Nombre, T(<<>>), NoneV)>>

Inscription(k, q, d) == [key |-> k, squad |-> q, dorsal |-> d]

CupInscriptions ==
    <<Inscription(KeyA, T(<<"Q">>), IntV(1)), Inscription(KeyLowerA, T(<<"Q">>), IntV(2)),
      Inscription(KeyB, NoneV, IntV(3))>>

OtherInscriptions == <<Inscription(KeyA, NoneV, IntV(1))>>

Round(d, h, sc) == [dorsal |-> d, round |-> NoneV, hits |-> h, misses |-> NoneV, score |-> sc]

RankValues ==
    {<<IntV(24), IntV(24)>>, <<IntV(20), IntV(20)>>, <<IntV(22), IntV(22)>>,
     <<NoneV, IntV(22)>>}

RankRounds == {Round(IntV(d), v[1], v[2]) : d \in 1..3, v \in RankValues}

OneRound ==
    <<Round(IntV(1), IntV(24), IntV(24)), Round(IntV(2), IntV(20), IntV(20)),
      Round(IntV(3), IntV(22), IntV(22))>>

KivyRankRounds ==
    {[key |-> k, series |-> <<>>, total |-> t] :
        k \in {KeyA, KeyLowerA, KeyB}, t \in {IntV(24), IntV(20), IntV(22), NoneV}}

RankRoom(tx) ==
    /\ Len(tx.db.entries) <= MaxEntries
    /\ Len(tx.db.round_results) <= MaxRounds
    /\ Len(tx.db.results) <= MaxRounds

ImportScenarioShooters == ImportShootersFrom({<<"ok", ScenarioShooters>>}, RankRoom)

ImportCupInscriptions == ImportInscriptionsFrom({<<"ok", CupInscriptions>>}, {"Cup"}, RankRoom)

ImportOtherInscriptions ==
    ImportInscriptionsFrom({<<"ok", OtherInscriptions>>}, {"Other"}, RankRoom)

ImportCupRounds ==
    ImportResultsFrom({<<"ok", <<r>>>> : r \in RankRounds} \cup {<<"ok", OneRound>>},
                      {"Cup"}, RankRoom)

ImportOtherRounds ==
    ImportResultsFrom({<<"ok", <<Round(IntV(1), IntV(20), IntV(22))>>>>}, {"Other"}, RankRoom)

KivyImportScenarioShooters == KivyImportShootersFrom({<<"ok", ScenarioShooters>>}, RankRoom)

KivyImportRounds ==
    KivyImportResultsFrom({<<"ok", <<r>>>> : r \in KivyRankRounds}, RankRoom)

NextRank ==
    \/ ImportScenarioShooters
    \/ ImportCupInscriptions
    \/ ImportOtherInscriptions
    \/ ImportCupRounds
    \/ ImportOtherRounds
    \/ ComputeStandings
    \/ ShowRankings
    \/ KivyImportScenarioShooters
    \/ KivyImportRounds
    \/ KivyComputeStandings
    \/ Dismiss

\* The results import alone, on the entries of the scenario, fed result rows
\* with absent, empty, zero, numeric and text cells.
RichResultCells ==
    {<<NoneV, NoneV, NoneV>>, <<IntV(3), IntV(0), IntV(0)>>, <<IntV(3), IntV(1), NoneV>>,
     <<IntV(0), NoneV, IntV(5)>>, <<T(<<"3">>), T(<<>>), T(<<"5">>)>>}

RichResultRows ==
    {[dorsal |-> IntV(1), round |-> NoneV, hits |-> c[1], misses |-> c[2], score |-> c[3]] :
        c \in RichResultCells}
        \cup {[dorsal |-> IntV(1), round |-> r, hits |-> IntV(3), misses |-> IntV(1),
               score |-> NoneV] : r \in {IntV(0), IntV(2)}}
        \cup {Round(IntV(4), IntV(3), IntV(0))}

ImportRichResults ==
    ImportResultsFrom({<<"ok", <<r>>>> : r \in RichResultRows}
                          \cup {<<"ok", <<Round(IntV(4), IntV(3), IntV(0)),
                                          Round(IntV(1), IntV(3), IntV(0))>>>>},
                      {"Cup"}, RankRoom)

NextResults ==
    \/ ImportScenarioShooters
    \/ ImportCupInscriptions
    \/ ImportRichResults
    \/ Dismiss

\* The export scenario: the same shooters and inscriptions, rounds of 24 hits
\* for "Cup" and the 20-hit, 22-point round for "Other".
ExportRounds == {<<"ok", <<Round(IntV(d), IntV(24), IntV(24))>>>> : d \in 1..3}

ImportExportRounds == ImportResultsFrom(ExportRounds, {"Cup"}, RankRoom)

ReimportExported == ReimportFrom(RankRoom)

NextExport ==
    \/ ImportScenarioShooters
    \/ ImportCupInscriptions
    \/ ImportOtherInscriptions
    \/ ImportExportRounds
    \/ ImportOtherRounds
    \/ ExportStandings
    \/ ReimportExported
    \/ KivyImportScenarioShooters
    \/ KivyImportRounds
    \/ KivyExportClassification
    \/ Dismiss

InitRank ==
    /\ mode \in {"per-round", "aggregate-total"}
    /\ shooters = <<>> /\ competitions = <<>> /\ squads = <<>> /\ entries = <<>>
    /\ round_results = <<>> /\ results = <<>>
    /\ pre = EmptyStore
    /\ last = Idle

SpecRank == InitRank /\ [][NextRank]_vars

InitExport == InitRank

SpecExport == InitExport /\ [][NextExport]_vars

InitResults == InitRank /\ mode = "per-round"

SpecResults == InitResults /\ [][NextResults]_vars

(* ======================= properties of the importers =================== *)
\* The call recorded in `last` read its sheet and returned a count.
Returned(op) == last.op = op /\ last.err = "none"

RowIndexes == 1..Len(last.rows)

\* Entries and results added by the last call.
NewEntries == (Len(pre.entries) + 1)..Len(entries)

NewResults == (Len(pre.round_results) + 1)..Len(round_results)

\* The key under which the running program files a shooter row: the trimmed
\* dni, or the text of the licencia cell.
FiledKey(row) ==
    IF mode = "per-round" THEN StrV(Strip(Str(row.key))) ELSE StrV(Str(row.key))

\* The row has a key cell that is not blank.
NonBlankKey(row) == ~IsNone(row.key) /\ Strip(Str(row.key)) # <<>>

\* The row has a name and a key that the running program keeps as it is
\* filed: a text dni other than the word None, or any non-empty licencia.
UsableKey(row) ==
    /\ NonBlankKey(row)
    /\ ~IsNone(row.nombre)
    /\ mode = "per-round" => row.key.t = "str" /\ row.key # KeyNoneText

StoredWithKey(table, k) == {j \in 1..Len(table) : table[j].key = k}

\* What C1 says of the rows that satisfy Has.
Idempotent(Has(_)) ==
    Returned("ImportShooters") =>
        /\ \A i \in RowIndexes :
             Has(last.rows[i]) =>
                 Cardinality(StoredWithKey(shooters, FiledKey(last.rows[i]))) = 1
        /\ (\A i \in RowIndexes : Has(last.rows[i])) =>
             last.created =
                 Cardinality({FiledKey(last.rows[i]) : i \in RowIndexes}
                                 \ {pre.shooters[j].key : j \in 1..Len(pre.shooters)})

\* C1 (as claimed): after an import of a row with a non-blank key k exactly
\* one shooter with key k is stored, and a row whose key was already stored
\* (by an earlier call or an earlier row) is not counted as created.
C1_ImportTwiceOneShooter == Idempotent(NonBlankKey)

\* C1 (amended): the same for the rows that have a name and a usable key.
C1_ImportTwiceOneShooterUsableKey == Idempotent(UsableKey)

\* C1 witness: a second import of a stored key returned; nothing was created,
\* the stored shooter was updated in place.
C1_Witness ==
    /\ Returned("ImportShooters")
    /\ Len(last.rows) = 2
    /\ \A i \in RowIndexes :
         /\ UsableKey(last.rows[i])
         /\ StoredWithKey(pre.shooters, FiledKey(last.rows[i])) # {}
    /\ last.created = 0
    /\ shooters # pre.shooters
    /\ Len(shooters) = Len(pre.shooters)

\* C2: no two stored shooters have the same non-null natural key, whatever
\* imports have run (dni in the per-round program, licencia in the other).
C2_ShooterKeyUnique ==
    \A i, j \in 1..Len(shooters) :
        i # j /\ ~IsNone(shooters[i].key) => shooters[i].key # shooters[j].key

\* C2 witness: an import whose two rows carry the same blank-padded key has
\* been committed next to an earlier shooter.
C2_Witness ==
    /\ Returned("ImportShooters")
    /\ Len(last.rows) = 2
    /\ last.rows[1].key = last.rows[2].key
    /\ Truthy(last.rows[1].key)
    /\ Len(pre.shooters) >= 1
    /\ Len(shooters) = Len(pre.shooters) + 1

\* C3 (as claimed): no two stored entries have the same (competition, dorsal).
C3_DorsalUnique ==
    \A i, j \in 1..Len(entries) :
        i # j /\ entries[i].competition_id = entries[j].competition_id
            => entries[i].dorsal # entries[j].dorsal

\* C4 (as claimed): an inscription row whose dorsal is already used in the
\* competition creates no second entry with that dorsal, and the entries that
\* existed before the call are unchanged.
C4_DuplicateDorsalRejected ==
    last.op = "ImportInscriptions" =>
        /\ \A i \in 1..Len(pre.entries) : entries[i] = pre.entries[i]
        /\ \A e \in NewEntries :
             ~\E j \in 1..(e - 1) :
                 /\ entries[j].competition_id = entries[e].competition_id
                 /\ entries[j].dorsal = entries[e].dorsal

\* The row's shooter key, trimmed, is the key of a shooter stored before the call.
KnownShooter(row) ==
    /\ row.key.t = "str"
    /\ Strip(row.key.s) # <<>>
    /\ \E i \in 1..Len(pre.shooters) : pre.shooters[i].key = StrV(Strip(row.key.s))

\* C5: an inscription row whose shooter key matches no stored shooter adds
\* neither an entry nor a shooter and is no error; the other rows of the call
\* are still imported (one entry for each row with a known shooter).
C5_UnknownShooterSkipped ==
    last.op = "ImportInscriptions" /\ last.file = "ok" =>
        /\ last.err = "none"
        /\ shooters = pre.shooters
        /\ Len(entries) - Len(pre.entries)
             = Cardinality({i \in RowIndexes : KnownShooter(last.rows[i])})
        /\ last.created = Len(entries) - Len(pre.entries)
        /\ \A e \in NewEntries : entries[e].shooter_id \in 1..Len(pre.shooters)

\* C5 witness: a sheet whose first row names an unknown shooter and whose
\* second row names a known one; only the second became an entry.
C5_Witness ==
    /\ Returned("ImportInscriptions")
    /\ Len(last.rows) = 2
    /\ ~KnownShooter(last.rows[1])
    /\ KnownShooter(last.rows[2])
    /\ Len(entries) = Len(pre.entries) + 1

\* The row's dorsal is the dorsal of an entry of the call's competition.
KnownDorsal(row) ==
    /\ ~IsNone(row.dorsal)
    /\ \E i \in 1..Len(pre.entries) :
         /\ pre.competitions[pre.entries[i].competition_id] = last.comp
         /\ pre.entries[i].dorsal = StrV(Str(row.dorsal))

\* C6: every stored round result references a stored entry; the results a
\* call adds belong to entries of the competition named in the call; rows
\* with an unknown dorsal add nothing and never make the call fail.
C6_ResultReferencesEntry ==
    /\ \A r \in 1..Len(round_results) : round_results[r].entry_id \in 1..Len(entries)
    /\ last.op = "ImportResults" /\ mode = "per-round" =>
         /\ \A r \in NewResults :
              competitions[entries[round_results[r].entry_id].competition_id] = last.comp
         /\ Len(round_results) - Len(pre.round_results)
              <= Cardinality({i \in RowIndexes : KnownDorsal(last.rows[i])})
         /\ last.err = "none" =>
              Len(round_results) - Len(pre.round_results)
                = Cardinality({i \in RowIndexes : KnownDorsal(last.rows[i])})
         /\ last.err = "ValueError" => \E i \in RowIndexes : KnownDorsal(last.rows[i])

\* C6 witness: a results sheet with an unknown dorsal followed by a known one,
\* imported while another competition exists; one result was stored.
C6_Witness ==
    /\ Returned("ImportResults")
    /\ mode = "per-round"
    /\ Len(competitions) = 2
    /\ Len(last.rows) = 2
    /\ ~KnownDorsal(last.rows[1])
    /\ KnownDorsal(last.rows[2])
    /\ Len(round_results) = Len(pre.round_results) + 1

\* C7: ImportResults for a competition that does not exist fails with the
\* not-found error and leaves every table as it was.
C7_ResultsNeedCompetition ==
    /\ last.op = "ImportResults"
    /\ mode = "per-round"
    /\ \A c \in 1..Len(pre.competitions) : pre.competitions[c] # last.comp
    => last.err = "NotFound" /\ Store = pre

\* C7 witness: such a call was made with data rows, after inscriptions had
\* created another competition with an entry.
C7_Witness ==
    /\ last.op = "ImportResults"
    /\ last.err = "NotFound"
    /\ Len(last.rows) > 0
    /\ Len(competitions) = 1
    /\ Len(entries) > 0

\* C8 (as claimed): after an ImportInscriptions call that returns a count,
\* exactly one competition with the given name is stored.
C8_CompetitionEnsured ==
    Returned("ImportInscriptions") =>
        Cardinality({c \in 1..Len(competitions) : competitions[c] = last.comp}) = 1

(* ========================= properties of the ranking =================== *)
\* Position of entry e in the order in which the entries were retrieved.
Retrieved(e) == CHOOSE i \in 1..Len(last.rows) : last.rows[i] = e

\* C9: the flat standings are ordered by total score descending, then by
\* total hits descending, and entries equal on both keep their retrieval order.
\* In the aggregate-total program a result has one total that is both its
\* hits and its score, and the rows are retrieved already ranked.
C9_StandingsOrdered ==
    Returned("ComputeStandings") =>
        \A i, j \in 1..Len(last.out) :
            i < j =>
                LET x == last.out[i]
                    y == last.out[j]
                IN IF mode = "per-round"
                   THEN \/ x.total_score > y.total_score
                        \/ x.total_score = y.total_score /\ x.total_hits > y.total_hits
                        \/ /\ x.total_score = y.total_score
                           /\ x.total_hits = y.total_hits
                           /\ Retrieved(x.entry_id) < Retrieved(y.entry_id)
                   ELSE \/ x.total > y.total
                        \/ x.total = y.total /\ Retrieved(x.shooter_id) < Retrieved(y.shooter_id)

\* C9 witness: after one round with scores 24/20/22 for dorsals 1/2/3 the
\* standings are dorsals [1,3,2] with scores [24,22,20].
C9_Witness ==
    /\ Returned("ComputeStandings")
    /\ mode = "per-round"
    /\ last.comp = "Cup"
    /\ Len(last.out) = 3
    /\ [i \in 1..3 |-> last.out[i].dorsal] = <<T(<<"1">>), T(<<"3">>), T(<<"2">>)>>
    /\ [i \in 1..3 |-> last.out[i].total_score] = <<24, 22, 20>>

\* The results of shooter k in the aggregate-total store that hold a number.
TotalsOf(k) ==
    {r \in 1..Len(results) : results[r].shooter_id = k /\ results[r].score.t = "int"}

RECURSIVE SumTotals(_)
SumTotals(S) ==
    IF S = {} THEN 0
    ELSE LET r == CHOOSE x \in S : TRUE IN results[r].score.n + SumTotals(S \ {r})

\* The round results of entry e, and the sum of one of their columns.
RoundsOf(e) == {r \in 1..Len(round_results) : round_results[r].entry_id = e}

RECURSIVE SumOver(_, _)
SumOver(S, col) ==
    IF S = {} THEN 0
    ELSE LET r == CHOOSE x \in S : TRUE IN round_results[r][col] + SumOver(S \ {r}, col)

\* C10: the standings of a competition hold exactly one standing per entry of
\* that competition and none for other entries; total hits and total score
\* are the sums over the entry's round results, 0 when it has none.
\* The aggregate-total program has one standing per shooter, its total
\* being the sum of the shooter's results.
C10_OneStandingPerEntry ==
    /\ Returned("ComputeStandings") /\ mode = "aggregate-total" =>
        /\ Len(last.out) = Len(shooters)
        /\ {last.out[i].shooter_id : i \in 1..Len(last.out)} = 1..Len(shooters)
        /\ \A i \in 1..Len(last.out) :
             last.out[i].total = SumTotals(TotalsOf(last.out[i].shooter_id))
    /\ Returned("ComputeStandings") /\ mode = "per-round" =>
        LET mine == {e \in 1..Len(entries) :
                        competitions[entries[e].competition_id] = last.comp}
        IN /\ Len(last.out) = Cardinality(mine)
           /\ {last.out[i].entry_id : i \in 1..Len(last.out)} = mine
           /\ \A i \in 1..Len(last.out) :
                /\ last.out[i].total_hits
                     = SumOver(RoundsOf(last.out[i].entry_id), "hits")
                /\ last.out[i].total_score
                     = SumOver(RoundsOf(last.out[i].entry_id), "score")

\* C10 witness: standings of "Cup" while "Other" has an entry with a result;
\* one Cup entry has two rounds and another has none.
C10_Witness ==
    /\ Returned("ComputeStandings")
    /\ mode = "per-round"
    /\ last.comp = "Cup"
    /\ Len(last.out) = 3
    /\ Len(entries) = 4
    /\ \E i \in 1..3 : Cardinality(RoundsOf(last.out[i].entry_id)) = 2
    /\ \E i \in 1..3 :
         /\ RoundsOf(last.out[i].entry_id) = {}
         /\ last.out[i].total_hits = 0
         /\ last.out[i].total_score = 0
    /\ \E r \in 1..Len(round_results) :
         competitions[entries[round_results[r].entry_id].competition_id] = "Other"

(* ========================= properties of the grouping ================== *)
\* The label of a standing, read from the store: the category of its shooter,
\* or "Sin categoría" when that is missing or empty.
LabelOf(s) ==
    LET shooter == IF mode = "per-round" THEN entries[s.entry_id].shooter_id
                   ELSE s.shooter_id
    IN IF IsNone(shooters[shooter].categoria) \/ shooters[shooter].categoria = StrV(<<>>)
       THEN SinCategoria
       ELSE shooters[shooter].categoria

\* The call recorded in `last` returned groups (by_category=True in the
\* per-round program, every compute_rankings() in the aggregate-total one).
ReturnedGroups ==
    \/ Returned("ShowRankings")
    \/ Returned("ComputeStandings") /\ mode = "aggregate-total"

\* Positions in group c at which the standing s appears.
PlacesIn(c, s) == {k \in 1..Len(last.groups[c]) : last.groups[c][k] = s}

\* C11: the groups partition the standings: every standing is in exactly one
\* group, once, the group labelled with its shooter's category or with
\* "Sin categoría"; the groups hold nothing else and no group is empty; each
\* group lists its standings in the order of the flat sorted sequence.
C11_GroupsPartitionStandings ==
    ReturnedGroups =>
        /\ \A i \in 1..Len(last.out) :
             /\ LabelOf(last.out[i]) \in DOMAIN last.groups
             /\ \A c \in DOMAIN last.groups :
                  Cardinality(PlacesIn(c, last.out[i]))
                      = IF c = LabelOf(last.out[i]) THEN 1 ELSE 0
        /\ \A c \in DOMAIN last.groups :
             /\ last.groups[c] # <<>>
             /\ last.groups[c] = SelectSeq(last.out, LAMBDA s : LabelOf(s) = c)

\* C11 witness: three standings in two groups; the first and the third of the
\* flat sequence share "Sin categoría", one for a missing and one for an
\* empty category, and the second stands alone in its shooter's category.
C11_Witness ==
    /\ Returned("ShowRankings")
    /\ Len(last.out) = 3
    /\ DOMAIN last.groups = {SinCategoria, Senior}
    /\ last.groups[SinCategoria] = <<last.out[1], last.out[3]>>
    /\ last.groups[Senior] = <<last.out[2]>>
    /\ {shooters[entries[last.out[i].entry_id].shooter_id].categoria : i \in {1, 3}}
           = {NoneV, StrV(<<>>)}
    /\ last.out[1].total_score > last.out[3].total_score

(* ================== properties of the aggregate-total rank ============= *)
\* Position in the general sequence of the standing of shooter k.
GeneralPlace(k) == CHOOSE i \in 1..Len(last.out) : last.out[i].shooter_id = k

\* C12: in the aggregate-total program the puesto of a standing is its
\* 1-based position in the general sequence, so the ranks are 1..n without
\* gaps or repeats, and a standing has the same puesto inside its category
\* group as in the general sequence.
C12_RankIsGeneralPosition ==
    Returned("ComputeStandings") /\ mode = "aggregate-total" =>
        /\ \A i \in 1..Len(last.out) : last.out[i].puesto = i
        /\ {last.out[i].puesto : i \in 1..Len(last.out)} = 1..Len(shooters)
        /\ \A c \in DOMAIN last.groups :
             \A k \in 1..Len(last.groups[c]) :
                 last.groups[c][k].puesto = GeneralPlace(last.groups[c][k].shooter_id)

\* C12 witness: three ranked shooters with different totals; a category
\* group of two opens with the shooter ranked second overall and its second
\* member is ranked third.
C12_Witness ==
    /\ Returned("ComputeStandings")
    /\ mode = "aggregate-total"
    /\ Len(last.out) = 3
    /\ last.out[1].total > last.out[2].total
    /\ last.out[2].total > last.out[3].total
    /\ \E c \in DOMAIN last.groups :
         /\ Len(last.groups[c]) = 2
         /\ last.groups[c][1].puesto = 2
         /\ last.groups[c][2].puesto = 3

(* ========================= properties of the export ==================== *)
\* The export of the last call had something to export from: the competition
\* exists (the aggregate-total program exports the whole store).
ExportCalled ==
    /\ last.op = "ExportStandings"
    /\ mode = "per-round" => \E c \in 1..Len(competitions) : competitions[c] = last.comp

\* The entries (per-round) or shooters (aggregate-total) the export is about.
Exportable ==
    IF mode = "per-round"
    THEN {e \in 1..Len(entries) : competitions[entries[e].competition_id] = last.comp}
    ELSE 1..Len(shooters)

\* The text of an exported row, whichever artifact it was written to.
TextOfRow(x) == [f \in DOMAIN x |-> CsvCell(x[f])]

\* The text expected for the row of entry e, computed from the store.
ExpectedText(e) ==
    [dorsal |-> CsvCell(entries[e].dorsal),
     nombre |-> CsvCell(shooters[entries[e].shooter_id].nombre),
     categoria |-> CsvCell(shooters[entries[e].shooter_id].categoria),
     total_hits |-> StrV(NatToStr(SumOver(RoundsOf(e), "hits"))),
     total_score |-> StrV(NatToStr(SumOver(RoundsOf(e), "score")))]

\* C15 (as claimed): an export returns the number of data rows written, one
\* per entry of the competition, entries without results included; with the
\* spreadsheet capability missing it falls back to delimited text with the
\* same count and the same rows; the store is left unchanged.
C15_ExportCountsEntries ==
    ExportCalled =>
        /\ last.err = "none"
        /\ last.created = Cardinality(Exportable)
        /\ Len(last.out) = Cardinality(Exportable)
        /\ {last.rows[i] : i \in 1..Len(last.rows)} = Exportable
        /\ mode = "per-round" =>
             \A i \in 1..Len(last.out) : TextOfRow(last.out[i]) = ExpectedText(last.rows[i])
        /\ Store = pre

\* Total score, for shooter key k in the competition of the last call, of the
\* round results of `table` at the positions S.
RECURSIVE KeyScore(_, _, _)
KeyScore(table, S, k) ==
    IF S = {} THEN 0
    ELSE LET r == CHOOSE x \in S : TRUE
             e == entries[table[r].entry_id]
         IN (IF shooters[e.shooter_id].key = k /\ competitions[e.competition_id] = last.comp
             THEN table[r].score ELSE 0)
            + KeyScore(table, S \ {r}, k)

\* The shooter keys entered in the competition of the last call.
KeysEntered ==
    {shooters[entries[e].shooter_id].key :
        e \in {x \in 1..Len(entries) : competitions[entries[x].competition_id] = last.comp}}

\* C13 (as claimed): the results created by importing an exported workbook
\* back reproduce, for every shooter key of the competition, the total score
\* the shooter had before the export (export leaves the store as it is, so
\* that is the total in the store the import started from).
C13_RoundTripReproducesTotals ==
    Returned("ReimportResults") =>
        \A k \in KeysEntered :
            KeyScore(round_results, NewResults, k)
                = KeyScore(pre.round_results, 1..Len(pre.round_results), k)

(* ===================== properties of a failed import =================== *)
\* The last call was a results import that read its sheet and failed on a
\* row after it had put `created` results into its transaction.
FailedOnLaterRow ==
    /\ last.op = "ImportResults"
    /\ last.file = "ok"
    /\ last.err \notin {"none", "NotFound"}
    /\ last.created > 0

\* C14 (as claimed): when a results import fails on a later row, the results
\* inserted for the earlier rows of that call remain in the store.
C14_PartialCommitRemains ==
    FailedOnLaterRow =>
        Len(round_results) + Len(results)
            = Len(pre.round_results) + Len(pre.results) + last.created

\* C14 (amended): an import call that fails leaves every table as it was
\* before the call; nothing inserted for its earlier rows remains.
C14_FailedImportLeavesStore ==
    /\ last.op \in {"ImportShooters", "ImportInscriptions", "ImportResults"}
    /\ last.err # "none"
    => Store = pre

\* C14 witness: a results sheet whose first row was inserted and whose second
\* row could not be coerced to a number.
C14_Witness ==
    /\ FailedOnLaterRow
    /\ last.err = "ValueError"
    /\ Len(last.rows) = 2
    /\ last.created = 1
    /\ Store = pre

(* ===================== properties of the returned count ================ *)
\* Records the last call added to the table it imports into.
Added ==
    CASE last.op = "ImportShooters" -> Len(shooters) - Len(pre.shooters)
      [] last.op = "ImportInscriptions" -> Len(entries) - Len(pre.entries)
      [] last.op = "ImportResults" ->
            (Len(round_results) - Len(pre.round_results)) + (Len(results) - Len(pre.results))
      [] OTHER -> 0

\* C16 (as claimed): the count an import returns is the number of records the
\* call added to the store, also when rows are ignored by the store or update
\* an existing record.
C16_CountIsRecordsAdded ==
    /\ last.op \in {"ImportShooters", "ImportInscriptions", "ImportResults"}
    /\ last.err = "none"
    => last.created = Added

(* ==================== properties of the stored result ================== *)
\* The cell holds a value: it is neither absent nor empty text.
Present(cell) == ~IsNone(cell) /\ cell # StrV(<<>>)

\* The number a numeric cell stands for (an int, or text read as decimal).
NumberIn(cell) == IF cell.t = "int" THEN cell.n ELSE DigitsToNat(Strip(cell.s), 0)

\* The rows of the last results import whose dorsal has an entry, in order:
\* the k-th of them made the k-th result the call added.
RowsWithEntry == SelectSeq(last.rows, KnownDorsal)

\* C17 (as claimed): the round result stored for a row has the row's round
\* number, hits, misses and score wherever the cell is present, an explicit 0
\* included; an absent or blank cell is defaulted: round number to 1, hits
\* and misses to 0, score to the row's hits.
C17_CellsStoredAsGiven ==
    Returned("ImportResults") /\ mode = "per-round" =>
        /\ Len(RowsWithEntry) = Len(round_results) - Len(pre.round_results)
        /\ \A k \in 1..Len(RowsWithEntry) :
             LET row == RowsWithEntry[k]
                 r == round_results[Len(pre.round_results) + k]
                 hits == IF Present(row.hits) THEN NumberIn(row.hits) ELSE 0
             IN /\ r.round_number = IF Present(row.round) THEN NumberIn(row.round) ELSE 1
                /\ r.hits = hits
                /\ r.misses = IF Present(row.misses) THEN NumberIn(row.misses) ELSE 0
                /\ r.score = IF Present(row.score) THEN NumberIn(row.score) ELSE hits

(* ===================== properties of the key lookup ==================== *)
\* The row's key with leading and trailing whitespace removed.
TrimmedKey(row) == StrV(Strip(Str(row.key)))

\* The row's trimmed key is, character for character, the key of a shooter
\* stored before the call.
MatchesStored(row) ==
    /\ NonBlankKey(row)
    /\ \E j \in 1..Len(pre.shooters) : pre.shooters[j].key = TrimmedKey(row)

\* C18 (as claimed): the importers look a shooter up by the trimmed key,
\* case-sensitively.  A shooter row with a usable key ends up as the one
\* stored shooter whose key is the row's trimmed key; no two stored shooters
\* have keys that differ only by surrounding whitespace; an inscription row
\* or an aggregate-total result row finds its shooter exactly when its
\* trimmed key is a stored key.
C18_LookupOnTrimmedKey ==
    /\ \A i, j \in 1..Len(shooters) :
         i # j /\ ~IsNone(shooters[i].key) /\ ~IsNone(shooters[j].key)
             => Strip(shooters[i].key.s) # Strip(shooters[j].key.s)
    /\ Returned("ImportShooters") =>
         \A i \in RowIndexes :
             UsableKey(last.rows[i]) =>
                 Cardinality(StoredWithKey(shooters, TrimmedKey(last.rows[i]))) = 1
    /\ Returned("ImportInscriptions") =>
         Len(entries) - Len(pre.entries)
             = Cardinality({i \in RowIndexes : MatchesStored(last.rows[i])})
    /\ Returned("ImportResults") /\ mode = "aggregate-total" =>
         Len(results) - Len(pre.results)
             = Cardinality({i \in RowIndexes : MatchesStored(last.rows[i])})

(* ================= properties of the synthesized key =================== *)
\* The row has no licence: the cell is empty or holds the empty text.
Keyless(row) == IsNone(row.key) \/ row.key = T(<<>>)

\* "X-<name>-<number>" for a row that has a name and a number.
SynthesizedKey(row) ==
    StrV(<<"X", "-">> \o Str(row.nombre) \o <<"-">> \o Str(row.numero))

\* Stored shooters that carry the row's name and number.
StoredAs(row) ==
    {j \in 1..Len(shooters) :
        shooters[j].nombre = row.nombre /\ shooters[j].numero = row.numero}

\* C19 (as claimed): in the aggregate-total program a shooter row without a
\* licence is stored under "X-<name>-<number>", exactly once however often
\* it is imported, and two such rows of one sheet that differ in name or
\* number are two distinct stored shooters.
C19_KeylessRowsGetSynthesizedKey ==
    mode = "aggregate-total" /\ Returned("ImportShooters") =>
        /\ \A i \in RowIndexes :
             Keyless(last.rows[i]) /\ ~IsNone(last.rows[i].nombre)
                     /\ ~IsNone(last.rows[i].numero)
                 => Cardinality(StoredWithKey(shooters, SynthesizedKey(last.rows[i]))) = 1
        /\ \A i, j \in RowIndexes :
             /\ Keyless(last.rows[i]) /\ Keyless(last.rows[j])
             /\ ~IsNone(last.rows[i].nombre) /\ ~IsNone(last.rows[j].nombre)
             /\ <<last.rows[i].nombre, last.rows[i].numero>>
                    # <<last.rows[j].nombre, last.rows[j].numero>>
             => \E a \in StoredAs(last.rows[i]), b \in StoredAs(last.rows[j]) : a # b

(* ================ properties of the aggregate result row =============== *)
\* The row's licence is the key of a shooter stored before the call.
LicenceKnown(row) ==
    /\ ~IsNone(row.key) /\ Str(row.key) # <<>>
    /\ \E j \in 1..Len(pre.shooters) : pre.shooters[j].key = StrV(Str(row.key))

\* The rows of the last results import whose licence is known, in order: the
\* k-th of them made the k-th result the call added.
RowsWithLicence == SelectSeq(last.rows, LicenceKnown)

\* The sum of the series cells, a blank cell counted as 0.
RECURSIVE SeriesTotal(_)
SeriesTotal(cells) ==
    IF cells = <<>> THEN 0
    ELSE (IF Present(Head(cells)) THEN NumberIn(Head(cells)) ELSE 0)
             + SeriesTotal(Tail(cells))

\* Every call of the aggregate-total results import that returned added one
\* result per row with a known licence, with round number 0, for that row's
\* shooter and with the score Score(row); it changed nothing else.
OneResultPerKnownRow(Score(_)) ==
    mode = "aggregate-total" /\ Returned("ImportResults") =>
        /\ Len(results) = Len(pre.results) + Len(RowsWithLicence)
        /\ SubSeq(results, 1, Len(pre.results)) = pre.results
        /\ \A k \in 1..Len(RowsWithLicence) :
             LET row == RowsWithLicence[k]
                 res == results[Len(pre.results) + k]
             IN /\ res.serie = 0
                /\ pre.shooters[res.shooter_id].key = StrV(Str(row.key))
                /\ res.score = Score(row)

TotalOrSum(row) ==
    IF ~IsNone(row.total) THEN row.total ELSE IntV(SeriesTotal(row.series))

TotalOrSumOrEmpty(row) ==
    IF ~IsNone(row.total) THEN row.total
    ELSE IF row.series # <<>> THEN IntV(SeriesTotal(row.series)) ELSE NoneV

AddedRounds == SubSeq(round_results, Len(pre.round_results) + 1, Len(round_results))

\* The stored round results are n copies, one after the other, of the block
\* the last call added: the same rows have been imported n times.
ImportedTimes(n) ==
    /\ AddedRounds # <<>>
    /\ Len(round_results) = n * Len(AddedRounds)
    /\ \A i \in 1..Len(round_results) :
         round_results[i] = AddedRounds[((i - 1) % Len(AddedRounds)) + 1]

\* C21: the per-round results import only adds round results.  A call that
\* returned left every earlier round result in place and added one per row
\* whose dorsal has an entry; and when the stored results are the same rows
\* imported n times, every entry's total score and total hits in the
\* standings are n times the totals of a single import.
C21_ImportResultsOnlyAdds ==
    mode = "per-round" /\ Returned("ImportResults") =>
        /\ SubSeq(round_results, 1, Len(pre.round_results)) = pre.round_results
        /\ Len(AddedRounds) = Len(SelectSeq(last.rows, KnownDorsal))
        /\ \A n \in 1..MaxRounds :
             ImportedTimes(n) =>
                 \A e \in 1..Len(entries) :
                     LET once == Standing([Store EXCEPT !.round_results = AddedRounds], e)
                         now == Standing(Store, e)
                     IN /\ now.total_score = n * once.total_score
                        /\ now.total_hits = n * once.total_hits

\* The same row has been imported three times: the entry already had two
\* results with the round number of the one just added.
C21_Witness ==
    /\ mode = "per-round" /\ Returned("ImportResults")
    /\ ImportedTimes(3)
    /\ Len(pre.round_results) = 2
    /\ \A i \in 1..2 :
         /\ pre.round_results[i].entry_id = AddedRounds[1].entry_id
         /\ pre.round_results[i].round_number = AddedRounds[1].round_number
    /\ Standing(Store, AddedRounds[1].entry_id).total_score > 0

====
